---- MODULE Spec2Model ----
(***************************************************************************)
(* A model of marathon-qualifying-details: the age-group functions of      *)
(* main.py, the upsert layer of database.py, the standard lookup of        *)
(* main.py and the end-to-end flow of run_pipeline.                        *)
(*                                                                         *)
(* Text is modelled as a sequence of one-character strings, so that the    *)
(* parsing the code does (lower, replace, regular expressions, int) is     *)
(* computed and not assumed.  A nullable value is <<>> (None / SQL NULL)   *)
(* or <<v>>.  A data-frame row is a record whose DOMAIN is its columns.    *)
(***************************************************************************)
EXTENDS Integers, Sequences, FiniteSets, Bags, TLC

VARIABLES
    call,         \* the last operation applied: its name, inputs and outcome
    qualTimes,    \* dbo.QualifyingTimes as the open transaction sees it (a bag of rows)
    raceData,     \* dbo.RaceData as the open transaction sees it (a bag of rows)
    committedQT,  \* dbo.QualifyingTimes as last committed
    committedRD,  \* dbo.RaceData as last committed
    pc,           \* run_pipeline: the statement the run is at
    datasets      \* run_pipeline: what the scrapers have returned so far

vars == <<call, qualTimes, raceData, committedQT, committedRD, pc, datasets>>

None == <<>>
Some(v) == <<v>>
IsNone(o) == o = <<>>
Val(o) == o[1]

(***************************************************************************)
(* Python string primitives.                                               *)
(***************************************************************************)
\* the one character U+2013 (EN DASH)
EnDash == "u2013"

Digits == {"0", "1", "2", "3", "4", "5", "6", "7", "8", "9"}

DigitVal(c) ==
    CASE c = "0" -> 0 [] c = "1" -> 1 [] c = "2" -> 2 [] c = "3" -> 3
      [] c = "4" -> 4 [] c = "5" -> 5 [] c = "6" -> 6 [] c = "7" -> 7
      [] c = "8" -> 8 [] c = "9" -> 9

DigitChar(d) ==
    CASE d = 0 -> "0" [] d = 1 -> "1" [] d = 2 -> "2" [] d = 3 -> "3"
      [] d = 4 -> "4" [] d = 5 -> "5" [] d = 6 -> "6" [] d = 7 -> "7"
      [] d = 8 -> "8" [] d = 9 -> "9"

IsSpace(c) == c \in {" ", "\t", "\n"}

\* str.lower() on one character
LowerChar(c) ==
    CASE c = "A" -> "a" [] c = "B" -> "b" [] c = "C" -> "c" [] c = "D" -> "d"
      [] c = "E" -> "e" [] c = "F" -> "f" [] c = "G" -> "g" [] c = "H" -> "h"
      [] c = "I" -> "i" [] c = "J" -> "j" [] c = "K" -> "k" [] c = "L" -> "l"
      [] c = "M" -> "m" [] c = "N" -> "n" [] c = "O" -> "o" [] c = "P" -> "p"
      [] c = "Q" -> "q" [] c = "R" -> "r" [] c = "S" -> "s" [] c = "T" -> "t"
      [] c = "U" -> "u" [] c = "V" -> "v" [] c = "W" -> "w" [] c = "X" -> "x"
      [] c = "Y" -> "y" [] c = "Z" -> "z"
      [] OTHER -> c

Lower(s) == [i \in 1..Len(s) |-> LowerChar(s[i])]

RECURSIVE LStrip(_)
LStrip(s) == IF s # <<>> /\ IsSpace(s[1]) THEN LStrip(Tail(s)) ELSE s

RECURSIVE RStrip(_)
RStrip(s) ==
    IF s # <<>> /\ IsSpace(s[Len(s)]) THEN RStrip(SubSeq(s, 1, Len(s) - 1)) ELSE s

Strip(s) == RStrip(LStrip(s))

StartsWith(s, p) == Len(s) >= Len(p) /\ SubSeq(s, 1, Len(p)) = p

EndsWith(s, p) == Len(s) >= Len(p) /\ SubSeq(s, Len(s) - Len(p) + 1, Len(s)) = p

\* `p in s`
Contains(s, p) == \E i \in 1..(Len(s) - Len(p) + 1) : SubSeq(s, i, i + Len(p) - 1) = p

\* s.replace(old, new): left to right, non-overlapping, old not empty
RECURSIVE Replace(_, _, _)
Replace(s, old, new) ==
    IF Len(s) < Len(old) THEN s
    ELSE IF StartsWith(s, old)
         THEN new \o Replace(SubSeq(s, Len(old) + 1, Len(s)), old, new)
         ELSE <<s[1]>> \o Replace(Tail(s), old, new)

\* the number of leading digits of s
RECURSIVE DigitRun(_)
DigitRun(s) == IF s # <<>> /\ s[1] \in Digits THEN 1 + DigitRun(Tail(s)) ELSE 0

\* the value of a sequence of digits
RECURSIVE DecVal(_)
DecVal(ds) ==
    IF ds = <<>> THEN 0
    ELSE 10 * DecVal(SubSeq(ds, 1, Len(ds) - 1)) + DigitVal(ds[Len(ds)])

\* re.findall(r"\d+", s), each run already converted by int
RECURSIVE FindAllInts(_)
FindAllInts(s) ==
    IF s = <<>> THEN <<>>
    ELSE LET n == DigitRun(s)
         IN IF n = 0 THEN FindAllInts(Tail(s))
            ELSE <<DecVal(SubSeq(s, 1, n))>> \o FindAllInts(SubSeq(s, n + 1, Len(s)))

\* int(s) accepts: surrounding whitespace, one sign, digits with single
\* underscores between them.  Anything else raises ValueError.
IntBodyOk(b) ==
    /\ b # <<>>
    /\ \A i \in 1..Len(b) : b[i] \in Digits \/ b[i] = "_"
    /\ b[1] # "_" /\ b[Len(b)] # "_"
    /\ \A i \in 1..(Len(b) - 1) : ~(b[i] = "_" /\ b[i + 1] = "_")

PyInt(s) ==
    LET t == Strip(s)
        signed == t # <<>> /\ t[1] \in {"+", "-"}
        body == IF signed THEN Tail(t) ELSE t
        mag == DecVal(Replace(body, <<"_">>, <<>>))
    IN IF IntBodyOk(body)
       THEN [exc |-> "none", val |-> IF signed /\ t[1] = "-" THEN 0 - mag ELSE mag]
       ELSE [exc |-> "ValueError", val |-> 0]

\* str(n) for an integer, as an f-string formats it
RECURSIVE NatStr(_)
NatStr(n) == IF n < 10 THEN <<DigitChar(n)>> ELSE NatStr(n \div 10) \o <<DigitChar(n % 10)>>

IntStr(n) == IF n < 0 THEN <<"-">> \o NatStr(0 - n) ELSE NatStr(n)

(***************************************************************************)
(* main.py: age_in_group.  The outcome is the returned boolean, or the     *)
(* exception that int raises.                                              *)
(***************************************************************************)
Returned(v) == [exc |-> "none", val |-> v]
Raised(e) == [exc |-> e, val |-> FALSE]

\* age_in_group with an open-ended bracket that leaves its own bound out
age_in_group_strict(age, group) ==
    LET age_group == Replace(Replace(Lower(group), <<EnDash>>, <<"-">>), <<" ">>, <<>>)
        nums == FindAllInts(age_group)
    IN IF EndsWith(age_group, <<"+">>)
       THEN LET n == PyInt(SubSeq(age_group, 1, Len(age_group) - 1))
            IN IF n.exc # "none" THEN Raised(n.exc) ELSE Returned(age > n.val)
       ELSE IF Contains(age_group, <<"a", "n", "d", "o", "v", "e", "r">>)
            THEN Returned(nums # <<>> /\ age > nums[1])
            ELSE IF Len(nums) = 2 THEN Returned(nums[1] <= age /\ age <= nums[2])
                 ELSE IF Len(nums) = 1 THEN Returned(age = nums[1])
                      ELSE Returned(FALSE)

age_in_group(age, group) ==
    LET age_group == Replace(Replace(Lower(group), <<EnDash>>, <<"-">>), <<" ">>, <<>>)
        nums == FindAllInts(age_group)
    IN IF EndsWith(age_group, <<"+">>)
       THEN LET n == PyInt(SubSeq(age_group, 1, Len(age_group) - 1))
            IN IF n.exc # "none" THEN Raised(n.exc) ELSE Returned(age >= n.val)
       ELSE IF Contains(age_group, <<"a", "n", "d", "o", "v", "e", "r">>)
            THEN Returned(nums # <<>> /\ age >= nums[1])
            ELSE IF Len(nums) = 2 THEN Returned(nums[1] <= age /\ age <= nums[2])
                 ELSE IF Len(nums) = 1 THEN Returned(age = nums[1])
                      ELSE Returned(FALSE)

(***************************************************************************)
(* main.py: get_age_group.  location is nullable text; the result is the   *)
(* label text.                                                             *)
(***************************************************************************)
T_london == <<"l", "o", "n", "d", "o", "n">>
T_boston == <<"b", "o", "s", "t", "o", "n">>
T_chicago == <<"c", "h", "i", "c", "a", "g", "o">>
T_new_york == <<"n", "e", "w", " ", "y", "o", "r", "k">>
T_tokyo == <<"t", "o", "k", "y", "o">>
T_berlin == <<"b", "e", "r", "l", "i", "n">>
T_Unknown == <<"U", "n", "k", "n", "o", "w", "n">>

boston_style == {T_boston, T_chicago, T_new_york}

london_groups ==
    << <<18, 39>>, <<40, 44>>, <<45, 49>>, <<50, 54>>, <<55, 59>>, <<60, 64>>,
       <<65, 69>>, <<70, 74>>, <<75, 79>>, <<80, 84>>, <<85, 89>>, <<90, 150>> >>

boston_groups ==
    << <<18, 34>>, <<35, 39>>, <<40, 44>>, <<45, 49>>, <<50, 54>>, <<55, 59>>,
       <<60, 64>>, <<65, 69>>, <<70, 74>>, <<75, 79>>, <<80, 150>> >>

\* f"{lower}-{upper}"
RangeLabel(lower, upper) == IntStr(lower) \o <<"-">> \o IntStr(upper)

london_label(lower, upper) ==
    IF upper < 90 THEN RangeLabel(lower, upper) ELSE <<"9", "0", "+">>

boston_label(lower, upper) ==
    IF lower = 80 THEN <<"8", "0", "+">> ELSE RangeLabel(lower, upper)

\* FirstGroup with the lower bound of a bracket left out of it
FirstGroup_exclusive(age, groups) ==
    LET hits == {i \in 1..Len(groups) : groups[i][1] < age /\ age <= groups[i][2]}
    IN IF hits = {} THEN None
       ELSE Some(groups[CHOOSE i \in hits : \A j \in hits : i <= j])

\* for lower, upper in groups: if lower <= age <= upper: the first such group
FirstGroup(age, groups) ==
    LET hits == {i \in 1..Len(groups) : groups[i][1] <= age /\ age <= groups[i][2]}
    IN IF hits = {} THEN None
       ELSE Some(groups[CHOOSE i \in hits : \A j \in hits : i <= j])

fine_label(age) ==
    LET lower == (age \div 5) * 5
        upper == lower + 4
    IN IF age >= 80 THEN <<"8", "0", "+">> ELSE RangeLabel(lower, upper)

get_age_group(age, location) ==
    LET loc == Lower(Strip(IF IsNone(location) THEN <<>> ELSE Val(location)))
    IN IF loc = T_london
       THEN LET g == FirstGroup(age, london_groups)
            IN IF IsNone(g) THEN T_Unknown ELSE london_label(Val(g)[1], Val(g)[2])
       ELSE IF loc \in boston_style
            THEN LET g == FirstGroup(age, boston_groups)
                 IN IF IsNone(g) THEN T_Unknown ELSE boston_label(Val(g)[1], Val(g)[2])
            ELSE IF loc \in {T_tokyo, T_berlin} THEN fine_label(age)
                 ELSE T_Unknown

(***************************************************************************)
(* database.py: time_to_seconds.  The argument is nullable text; the       *)
(* outcome is the returned value (an integer, or None) or the exception.   *)
(***************************************************************************)
T_sub_ == <<"s", "u", "b", " ">>
T_hr == <<"h", "r">>
T_min == <<"m", "i", "n">>
T_sec == <<"s", "e", "c">>

Drop(s, n) == SubSeq(s, n + 1, Len(s))

\* re.match(r"sub (\d+):(\d+)", s): <<hours, minutes>> in a Some, or None
MatchSub(s) ==
    IF ~StartsWith(s, T_sub_) THEN None
    ELSE LET a == Drop(s, 4)
             n == DigitRun(a)
             b == Drop(a, n + 1)
             k == DigitRun(b)
         IN IF n > 0 /\ Len(a) > n /\ a[n + 1] = ":" /\ k > 0
            THEN Some(<<DecVal(SubSeq(a, 1, n)), DecVal(SubSeq(b, 1, k))>>)
            ELSE None

\* one optional group (?:(\d+)unit)? at the head of s, where the unit may be
\* followed by an optional "s" (hrs?): the group's number (None when the group
\* does not match) and the text left
UnitGroup(s, unit, plural) ==
    LET n == DigitRun(s)
        after == Drop(s, n)
    IN IF n > 0 /\ StartsWith(after, unit)
       THEN LET rest == Drop(after, Len(unit))
            IN [num |-> Some(DecVal(SubSeq(s, 1, n))),
                rest |-> IF plural /\ rest # <<>> /\ rest[1] = "s" THEN Tail(rest) ELSE rest]
       ELSE [num |-> None, rest |-> s]

OrZero(o) == IF IsNone(o) THEN 0 ELSE Val(o)

\* MatchUnits that reads minutes and seconds only after an hours group
MatchUnits_hours_first(s) ==
    LET h == UnitGroup(s, T_hr, TRUE)
        m == UnitGroup(LStrip(h.rest), T_min, FALSE)
        c == UnitGroup(LStrip(m.rest), T_sec, FALSE)
    IN IF IsNone(h.num) THEN <<None, None, None>> ELSE <<h.num, m.num, c.num>>

\* re.match(r"(?:(\d+)hrs?)?\s*(?:(\d+)min)?\s*(?:(\d+)sec)?", s): every part
\* is optional, so the match always succeeds; the three groups
MatchUnits(s) ==
    LET h == UnitGroup(s, T_hr, TRUE)
        m == UnitGroup(LStrip(h.rest), T_min, FALSE)
        c == UnitGroup(LStrip(m.rest), T_sec, FALSE)
    IN <<h.num, m.num, c.num>>

time_to_seconds(time_str) ==
    IF IsNone(time_str) THEN [exc |-> "AttributeError", val |-> None]
    ELSE LET s == Strip(Lower(Val(time_str)))
             sub == MatchSub(s)
             g == MatchUnits(s)
         IN IF ~IsNone(sub)
            THEN [exc |-> "none", val |-> Some(Val(sub)[1] * 3600 + Val(sub)[2] * 60)]
            ELSE [exc |-> "none",
                  val |-> Some(OrZero(g[1]) * 3600 + OrZero(g[2]) * 60 + OrZero(g[3]))]

(***************************************************************************)
(* main.py: parse_time_to_seconds.  The result is Some(seconds) or None.   *)
(***************************************************************************)
\* s.split(sep) for a one-character separator
RECURSIVE Split(_, _)
Split(s, sep) ==
    LET cut == {i \in 1..Len(s) : s[i] = sep}
    IN IF cut = {} THEN <<s>>
       ELSE LET i == CHOOSE i \in cut : \A j \in cut : i <= j
            IN <<SubSeq(s, 1, i - 1)>> \o Split(Drop(s, i), sep)

parse_time_to_seconds(text) ==
    IF IsNone(text) \/ text = Some(<<>>) THEN None
    ELSE LET t0 == Strip(Replace(Lower(Strip(Val(text))), <<"s", "u", "b">>, <<>>))
             t1 == Replace(t0, <<"h", "r", "s">>, <<":">>)
             t2 == Replace(t1, T_hr, <<":">>)
             t3 == Replace(t2, T_min, <<":">>)
             t == Replace(t3, T_sec, <<>>)
             parts == SelectSeq(Split(t, ":"), LAMBDA q : q # <<>>)
             ints == [i \in 1..Len(parts) |-> PyInt(parts[i])]
         IN IF \E i \in 1..Len(ints) : ints[i].exc # "none" THEN None
            ELSE IF Len(ints) = 3
                 THEN Some(ints[1].val * 3600 + ints[2].val * 60 + ints[3].val)
                 ELSE IF Len(ints) = 2 THEN Some(ints[1].val * 60 + ints[2].val)
                      ELSE IF Len(ints) = 1 THEN Some(ints[1].val * 60)
                           ELSE None

(***************************************************************************)
(* database.py: the two tables and the statements the upserts issue.  A    *)
(* table is a bag of rows.  `=` in a WHERE clause is never true of NULL;   *)
(* the UNIQUE constraints that create_tables adds take two NULLs for       *)
(* duplicates (SQL Server).                                                *)
(***************************************************************************)
SqlEq(a, b) == ~IsNone(a) /\ ~IsNone(b) /\ a = b

RECURSIVE SumCopies(_, _)
SumCopies(B, S) ==
    IF S = {} THEN 0
    ELSE LET r == CHOOSE r \in S : TRUE IN CopiesIn(r, B) + SumCopies(B, S \ {r})

\* SELECT COUNT(*) FROM table WHERE P(row)
CountWhere(B, P(_)) == SumCopies(B, {r \in BagToSet(B) : P(r)})

\* UPDATE table SET row = F(row) WHERE P(row)
UpdateWhere(B, P(_), F(_)) ==
    LET rows == BagToSet(B)
        image == {IF P(r) THEN F(r) ELSE r : r \in rows}
    IN [x \in image |->
           SumCopies(B, {r \in rows : (IF P(r) THEN F(r) ELSE r) = x})]

AddRow(B, r) == B (+) SetToBag({r})

\* create_tables: UQ_QualTimes UNIQUE (AgeGroup, Location)
UQ_QualTimes(B, r) ==
    CountWhere(B, LAMBDA x : x.AgeGroup = r.AgeGroup /\ x.Location = r.Location) = 0

\* create_tables: UQ_RaceData UNIQUE (RaceYear, Location)
UQ_RaceData(B, r) ==
    CountWhere(B, LAMBDA x : x.RaceYear = r.RaceYear /\ x.Location = r.Location) = 0

\* the outcome of a call that walks a data frame: the table it leaves, the
\* statements it issued (each with the index of the row it was issued for)
\* and the exception that ended it ("none" when it returned)
Outcome(table, issued, exc) == [table |-> table, issued |-> issued, exc |-> exc]

Stmt(kind, i) == [stmt |-> kind, row |-> i]

(***************************************************************************)
(* database.py: insert_qualifying_times.                                   *)
(***************************************************************************)
\* qt_exists with the age group left out of the WHERE clause
qt_exists_by_location(B, age_group, location) ==
    CountWhere(B, LAMBDA x : SqlEq(x.Location, location)) > 0

\* SELECT COUNT(*) FROM dbo.QualifyingTimes WHERE AgeGroup=? AND Location=?
qt_exists(B, age_group, location) ==
    CountWhere(B, LAMBDA x : SqlEq(x.AgeGroup, age_group) /\ SqlEq(x.Location, location)) > 0

\* qt_update that refreshes the texts and leaves the seconds columns stale
qt_update_texts_only(B, row, women_sec, men_sec) ==
    UpdateWhere(B,
        LAMBDA x : SqlEq(x.AgeGroup, row.AgeGroup) /\ SqlEq(x.Location, row.Location),
        LAMBDA x : [x EXCEPT !.Women = row.Women, !.Men = row.Men])

\* UPDATE dbo.QualifyingTimes SET Women=?, Men=?, WomenSeconds=?, MenSeconds=?
\* WHERE AgeGroup=? AND Location=?
qt_update(B, row, women_sec, men_sec) ==
    UpdateWhere(B,
        LAMBDA x : SqlEq(x.AgeGroup, row.AgeGroup) /\ SqlEq(x.Location, row.Location),
        LAMBDA x : [x EXCEPT !.Women = row.Women, !.Men = row.Men,
                             !.WomenSeconds = women_sec, !.MenSeconds = men_sec])

\* the row INSERT INTO dbo.QualifyingTimes (...) VALUES (?, ?, ?, ?, ?, ?) adds
qt_new_row(row, women_sec, men_sec) ==
    [AgeGroup |-> row.AgeGroup, Women |-> row.Women, Men |-> row.Men,
     Location |-> row.Location, WomenSeconds |-> women_sec, MenSeconds |-> men_sec]

\* the statements of one turn, once the two times are converted
qt_write(B, row, i, w, m) ==
    IF w.exc # "none" THEN Outcome(B, <<>>, w.exc)
    ELSE IF m.exc # "none" THEN Outcome(B, <<>>, m.exc)
    ELSE IF qt_exists(B, row.AgeGroup, row.Location)
         THEN Outcome(qt_update(B, row, w.val, m.val),
                      <<Stmt("SELECT", i), Stmt("UPDATE", i)>>, "none")
         ELSE IF UQ_QualTimes(B, qt_new_row(row, w.val, m.val))
              THEN Outcome(AddRow(B, qt_new_row(row, w.val, m.val)),
                           <<Stmt("SELECT", i), Stmt("INSERT", i)>>, "none")
              ELSE Outcome(B, <<Stmt("SELECT", i), Stmt("INSERT", i)>>,
                           "IntegrityError")

\* one turn of the loop over df.iterrows(), for row i of the frame
qt_row(B, row, i) ==
    IF ~({"AgeGroup", "Location", "Women", "Men"} \subseteq DOMAIN row)
    THEN Outcome(B, <<>>, "KeyError")
    ELSE qt_write(B, row, i, time_to_seconds(row.Women), time_to_seconds(row.Men))

RECURSIVE qt_rows(_, _, _)
qt_rows(B, df, i) ==
    IF i > Len(df) THEN Outcome(B, <<>>, "none")
    ELSE LET one == qt_row(B, df[i], i)
         IN IF one.exc # "none" THEN one
            ELSE LET rest == qt_rows(one.table, df, i + 1)
                 IN Outcome(rest.table, one.issued \o rest.issued, rest.exc)

insert_qualifying_times(B, df) == qt_rows(B, df, 1)

(***************************************************************************)
(* database.py: insert_racedata.                                           *)
(***************************************************************************)
\* SELECT COUNT(*) FROM dbo.RaceData WHERE RaceYear=? AND Location=?
rd_exists(B, race_year, location) ==
    CountWhere(B, LAMBDA x : SqlEq(x.RaceYear, race_year) /\ SqlEq(x.Location, location)) > 0

\* row.get("PageHash", None)
rd_page_hash(row) == IF "PageHash" \in DOMAIN row THEN row.PageHash ELSE None

\* rd_update that leaves the page hash of the earlier scrape in place
rd_update_stale_hash(B, row) ==
    UpdateWhere(B,
        LAMBDA x : SqlEq(x.RaceYear, row.RaceYear) /\ SqlEq(x.Location, row.Location),
        LAMBDA x : [x EXCEPT !.QualifyingText = row.QualifyingText,
                             !.LinkText = row.LinkText, !.LinkURL = row.LinkURL,
                             !.ScrapeDate = row.ScrapeDate])

\* UPDATE dbo.RaceData SET QualifyingText=?,LinkText=?,LinkURL=?,ScrapeDate=?,PageHash=?
\* WHERE RaceYear=? AND Location=?
rd_update(B, row) ==
    UpdateWhere(B,
        LAMBDA x : SqlEq(x.RaceYear, row.RaceYear) /\ SqlEq(x.Location, row.Location),
        LAMBDA x : [x EXCEPT !.QualifyingText = row.QualifyingText,
                             !.LinkText = row.LinkText, !.LinkURL = row.LinkURL,
                             !.ScrapeDate = row.ScrapeDate,
                             !.PageHash = rd_page_hash(row)])

\* the row INSERT INTO dbo.RaceData (...) VALUES (?,?,?,?,?,?,?) adds
rd_new_row(row) ==
    [RaceYear |-> row.RaceYear, Location |-> row.Location,
     QualifyingText |-> row.QualifyingText, LinkText |-> row.LinkText,
     LinkURL |-> row.LinkURL, ScrapeDate |-> row.ScrapeDate,
     PageHash |-> rd_page_hash(row)]

\* one turn of the loop over df.iterrows(), for row i of the frame
rd_row(B, row, i) ==
    IF ~({"RaceYear", "Location"} \subseteq DOMAIN row)
    THEN Outcome(B, <<>>, "AttributeError")
    ELSE IF rd_exists(B, row.RaceYear, row.Location)
         THEN IF {"QualifyingText", "LinkText", "LinkURL", "ScrapeDate"} \subseteq DOMAIN row
              THEN Outcome(rd_update(B, row), <<Stmt("SELECT", i), Stmt("UPDATE", i)>>, "none")
              ELSE Outcome(B, <<Stmt("SELECT", i)>>, "AttributeError")
         ELSE IF ~({"QualifyingText", "LinkText", "LinkURL", "ScrapeDate"} \subseteq DOMAIN row)
              THEN Outcome(B, <<Stmt("SELECT", i)>>, "AttributeError")
              ELSE IF UQ_RaceData(B, rd_new_row(row))
                   THEN Outcome(AddRow(B, rd_new_row(row)),
                                <<Stmt("SELECT", i), Stmt("INSERT", i)>>, "none")
                   ELSE Outcome(B, <<Stmt("SELECT", i), Stmt("INSERT", i)>>,
                                "IntegrityError")

RECURSIVE rd_rows(_, _, _)
rd_rows(B, df, i) ==
    IF i > Len(df) THEN Outcome(B, <<>>, "none")
    ELSE LET one == rd_row(B, df[i], i)
         IN IF one.exc # "none" THEN one
            ELSE LET rest == rd_rows(one.table, df, i + 1)
                 IN Outcome(rest.table, one.issued \o rest.issued, rest.exc)

insert_racedata(B, df) == rd_rows(B, df, 1)

(***************************************************************************)
(* main.py: print_pb_margin.  SELECT TOP 1 without ORDER BY hands back any *)
(* one of the rows the WHERE clause keeps, so the outcome is a set.        *)
(***************************************************************************)
T_women == <<"w", "o", "m", "e", "n">>

\* seconds_column = "WomenSeconds" if gender.lower() == "women" else "MenSeconds"
seconds_of(r, gender) == IF Lower(gender) = T_women THEN r.WomenSeconds ELSE r.MenSeconds

\* SELECT TOP 1 AgeGroup, {seconds_column} FROM dbo.QualifyingTimes WHERE Location = ?
\* AND (AgeGroup LIKE '%and over%' OR AgeGroup NOT LIKE '%and over%'): the
\* possible values of cursor.fetchall()
select_top1(B, location, gender) ==
    LET kept == {r \in BagToSet(B) : SqlEq(r.Location, location) /\ ~IsNone(r.AgeGroup)}
    IN IF kept = {} THEN {<<>>}
       ELSE {<< <<Val(r.AgeGroup), seconds_of(r, gender)>> >> : r \in kept}

PbResult(kind, age_group, seconds, delta) ==
    [kind |-> kind, age_group |-> age_group, seconds |-> seconds, delta |-> delta]

\* for age_group, qualifying_seconds in rows: ... from row i on
RECURSIVE pb_match(_, _, _, _)
pb_match(rows, i, runner_age, pb_seconds) ==
    IF i > Len(rows) THEN PbResult("not_found", <<>>, 0, 0)
    ELSE IF IsNone(rows[i][2]) THEN pb_match(rows, i + 1, runner_age, pb_seconds)
    ELSE LET hit == age_in_group(runner_age, rows[i][1])
         IN IF hit.exc # "none" THEN PbResult(hit.exc, <<>>, 0, 0)
            ELSE IF hit.val
                 THEN PbResult("margin", rows[i][1], Val(rows[i][2]),
                               pb_seconds - Val(rows[i][2]))
                 ELSE pb_match(rows, i + 1, runner_age, pb_seconds)

print_pb_margin(B, location, runner_age, gender, pb_text) ==
    LET pb_seconds == parse_time_to_seconds(pb_text)
    IN IF IsNone(pb_seconds) THEN {PbResult("pb_unparsable", <<>>, 0, 0)}
       ELSE {pb_match(rows, 1, runner_age, Val(pb_seconds)) :
                rows \in select_top1(B, location, gender)}

(***************************************************************************)
(* What the three specifications share.  An operation is applied when no   *)
(* call is outstanding and leaves its inputs and outcome in `call`; Return *)
(* ends the call.                                                          *)
(***************************************************************************)
SeqsUpTo(S, n) == UNION {[1..k -> S] : k \in 0..n}

NoCall == [op |-> "none"]

Idle ==
    /\ qualTimes = EmptyBag /\ raceData = EmptyBag
    /\ committedQT = EmptyBag /\ committedRD = EmptyBag
    /\ pc = "idle" /\ datasets = <<>>

Return ==
    /\ call # NoCall
    /\ call' = NoCall
    /\ UNCHANGED <<qualTimes, raceData, committedQT, committedRD, pc, datasets>>

(***************************************************************************)
(* The upserts and the lookup applied to bounded inputs (Spec, SpecRace).  *)
(***************************************************************************)
MaxBatch == 2

T_Boston == <<"B", "o", "s", "t", "o", "n">>
T_London == <<"L", "o", "n", "d", "o", "n">>
T_45_49 == <<"4", "5", "-", "4", "9">>
T_50_54 == <<"5", "0", "-", "5", "4">>
T_3_35_00 == <<"3", ":", "3", "5", ":", "0", "0">>
T_3_30_00 == <<"3", ":", "3", "0", ":", "0", "0">>
T_3_10_00 == <<"3", ":", "1", "0", ":", "0", "0">>
T_sub_3_38 == <<"s", "u", "b", " ", "3", ":", "3", "8">>
T_3hrs_25min_00sec ==
    <<"3", "h", "r", "s", " ", "2", "5", "m", "i", "n", " ", "0", "0", "s", "e", "c">>
T_Women == <<"W", "o", "m", "e", "n">>
T_Men == <<"M", "e", "n">>

QTKeys ==
    { <<Some(T_45_49), Some(T_Boston)>>, <<Some(T_50_54), Some(T_Boston)>>,
      <<Some(T_45_49), Some(T_London)>>, <<None, Some(T_Boston)>> }

QTTimes ==
    { <<Some(T_3_35_00), Some(T_3hrs_25min_00sec)>>, <<Some(T_3_30_00), Some(T_sub_3_38)>> }

QTRow(k, t) == [AgeGroup |-> k[1], Location |-> k[2], Women |-> t[1], Men |-> t[2]]

QTRows ==
    {QTRow(k, t) : k \in QTKeys, t \in QTTimes}
        \cup {QTRow(<<Some(T_45_49), Some(T_Boston)>>, <<None, Some(T_sub_3_38)>>)}

\* frames of rows with every column, and one-row frames that lack a key column
QTFrames ==
    SeqsUpTo(QTRows, MaxBatch)
        \cup { <<[Location |-> Some(T_Boston), Women |-> Some(T_3_35_00),
                  Men |-> Some(T_sub_3_38)]>>,
               <<[AgeGroup |-> Some(T_45_49), Women |-> Some(T_3_35_00),
                  Men |-> Some(T_sub_3_38)]>> }

PbLocations == {Some(T_Boston), Some(T_London), None}
PbAges == {30, 47, 52}
PbGenders == {T_Women, T_Men}
PbTexts ==
    {Some(T_3_10_00), Some(T_3hrs_25min_00sec), Some(<<"f", "a", "s", "t">>), None,
     Some(T_sub_3_38), Some(<<"3">>), Some(<<"3", "h", "r", "s", " ", "2", "5", "m", "i", "n">>)}

Init == call = NoCall /\ Idle

InsertQualifyingTimesCall ==
    /\ call = NoCall
    /\ \E df \in QTFrames :
          LET r == insert_qualifying_times(qualTimes, df)
          IN /\ qualTimes' = r.table
             /\ call' = [op |-> "insert_qualifying_times", df |-> df, before |-> qualTimes,
                         issued |-> r.issued, exc |-> r.exc]
    /\ UNCHANGED <<raceData, committedQT, committedRD, pc, datasets>>

PrintPbMarginCall ==
    /\ call = NoCall
    /\ \E location \in PbLocations, age \in PbAges, gender \in PbGenders, pb \in PbTexts :
          \E res \in print_pb_margin(qualTimes, location, age, gender, pb) :
             call' = [op |-> "print_pb_margin", location |-> location, age |-> age,
                      gender |-> gender, pb |-> pb, result |-> res]
    /\ UNCHANGED <<qualTimes, raceData, committedQT, committedRD, pc, datasets>>

Next == InsertQualifyingTimesCall \/ PrintPbMarginCall \/ Return

Spec == Init /\ [][Next]_vars

RDKeys ==
    { <<Some(2027), Some(T_Boston)>>, <<Some(2027), Some(T_London)>>,
      <<None, Some(T_Boston)>>, <<Some(2027), None>> }

\* what one scrape of a page yields for the fields that are not the key
RDScrape(v) ==
    IF v = 1
    THEN [QualifyingText |-> Some("window A"), LinkText |-> Some("link A"),
          LinkURL |-> Some("url A"), ScrapeDate |-> Some("date 1"), PageHash |-> Some("hash A")]
    ELSE [QualifyingText |-> Some("window B"), LinkText |-> Some("link B"),
          LinkURL |-> Some("url B"), ScrapeDate |-> Some("date 2"), PageHash |-> Some("hash B")]

RDRow(k, f) ==
    [RaceYear |-> k[1], Location |-> k[2], QualifyingText |-> f.QualifyingText,
     LinkText |-> f.LinkText, LinkURL |-> f.LinkURL, ScrapeDate |-> f.ScrapeDate,
     PageHash |-> f.PageHash]

\* a frame built before the PageHash column existed
RDRowNoHash ==
    [RaceYear |-> Some(2027), Location |-> Some(T_Boston),
     QualifyingText |-> Some("window C"), LinkText |-> Some("link C"),
     LinkURL |-> Some("url C"), ScrapeDate |-> Some("date 3")]

RDRows == {RDRow(k, RDScrape(v)) : k \in RDKeys, v \in {1, 2}} \cup {RDRowNoHash}

RDFrames ==
    SeqsUpTo(RDRows, MaxBatch)
        \cup { <<[Location |-> Some(T_Boston), QualifyingText |-> Some("window A"),
                  LinkText |-> Some("link A"), LinkURL |-> Some("url A"),
                  ScrapeDate |-> Some("date 1")]>>,
               <<[RaceYear |-> Some(2027), QualifyingText |-> Some("window A"),
                  LinkText |-> Some("link A"), LinkURL |-> Some("url A"),
                  ScrapeDate |-> Some("date 1")]>> }

InsertRacedataCall ==
    /\ call = NoCall
    /\ \E df \in RDFrames :
          LET r == insert_racedata(raceData, df)
          IN /\ raceData' = r.table
             /\ call' = [op |-> "insert_racedata", df |-> df, before |-> raceData,
                         issued |-> r.issued, exc |-> r.exc]
    /\ UNCHANGED <<qualTimes, committedQT, committedRD, pc, datasets>>

NextRace == InsertRacedataCall \/ Return

SpecRace == Init /\ [][NextRace]_vars

(***************************************************************************)
(* main.py: run_pipeline, one statement at a time (SpecPipe).  The list    *)
(* of line 188 calls the six scrapers in order; an exception a scraper     *)
(* raises is caught nowhere, so it ends the run.  Line 191 reads           *)
(* london_data and boston_data, names that nothing binds: once the six     *)
(* scrapers have returned it raises NameError, and lines 192-209 (the two  *)
(* upserts, the commit after them and the queries) are never run.  A run   *)
(* that ends by an exception never commits, and the connection it leaves   *)
(* behind is rolled back.                                                  *)
(***************************************************************************)
Sources == <<"London", "Boston", "Tokyo", "Berlin", "Chicago", "New York">>

SourceText(src) ==
    CASE src = "London" -> T_London
      [] src = "Boston" -> T_Boston
      [] src = "Tokyo" -> <<"T", "o", "k", "y", "o">>
      [] src = "Berlin" -> <<"B", "e", "r", "l", "i", "n">>
      [] src = "Chicago" -> <<"C", "h", "i", "c", "a", "g", "o">>
      [] src = "New York" -> <<"N", "e", "w", " ", "Y", "o", "r", "k">>

\* the page a scraper fetched: its content differs from one fetch to another
PageVersions == {1, 2}

\* what a scraper returns, (df_racedata, df_times), for the page it fetched
ScrapeResult(src, v) ==
    [source |-> src,
     racedata |-> <<RDRow(<<Some(2027), Some(SourceText(src))>>, RDScrape(v))>>,
     times |-> <<QTRow(<<Some(T_45_49), Some(SourceText(src))>>,
                       IF v = 1 THEN <<Some(T_3_35_00), Some(T_3hrs_25min_00sec)>>
                       ELSE <<Some(T_3_30_00), Some(T_sub_3_38)>>)>>]

\* the exceptions a scraper can raise: _get gives up (scrape.py:43); the
\* qualifying table or section is not found (scrape.py:108, 145, 209, 240,
\* 360); scrape_berlin reads target_ul when no list matched (scrape.py:320).
\* scrape_chicago turns a missing table into an empty frame (scrape.py:275).
ScrapeErrors(src) ==
    {"RequestException"}
        \cup (IF src = "Chicago" THEN {} ELSE {"ValueError"})
        \cup (IF src = "Berlin" THEN {"AttributeError"} ELSE {})

InitPipe == call = NoCall /\ Idle

\* lines 180-181: a run begins (the program is started, or started again)
StartRun ==
    /\ pc \in {"idle", "aborted"}
    /\ pc' = "create_tables"
    /\ datasets' = <<>>
    /\ call' = [op |-> "run_pipeline", exc |-> "none", at |-> "start"]
    /\ UNCHANGED <<qualTimes, raceData, committedQT, committedRD>>

\* lines 183-185: create_tables leaves existing tables as they are; commit
CreateTablesAndCommit ==
    /\ pc = "create_tables"
    /\ pc' = "scrape"
    /\ committedQT' = qualTimes
    /\ committedRD' = raceData
    /\ call' = [call EXCEPT !.at = "scrape"]
    /\ UNCHANGED <<qualTimes, raceData, datasets>>

\* line 188: the next scraper of the list returns
ScraperReturns ==
    /\ pc = "scrape"
    /\ Len(datasets) < Len(Sources)
    /\ \E v \in PageVersions :
          datasets' = Append(datasets, ScrapeResult(Sources[Len(datasets) + 1], v))
    /\ UNCHANGED <<call, qualTimes, raceData, committedQT, committedRD, pc>>

\* line 188: the next scraper of the list raises; the run ends
ScraperRaises ==
    /\ pc = "scrape"
    /\ Len(datasets) < Len(Sources)
    /\ \E e \in ScrapeErrors(Sources[Len(datasets) + 1]) :
          call' = [op |-> "run_pipeline", exc |-> e, at |-> Sources[Len(datasets) + 1]]
    /\ pc' = "aborted"
    /\ qualTimes' = committedQT
    /\ raceData' = committedRD
    /\ UNCHANGED <<committedQT, committedRD, datasets>>

\* line 191: pd.concat([london_data, boston_data]) raises NameError
ConcatRaises ==
    /\ pc = "scrape"
    /\ Len(datasets) = Len(Sources)
    /\ call' = [op |-> "run_pipeline", exc |-> "NameError", at |-> "concat"]
    /\ pc' = "aborted"
    /\ qualTimes' = committedQT
    /\ raceData' = committedRD
    /\ UNCHANGED <<committedQT, committedRD, datasets>>

NextPipe ==
    StartRun \/ CreateTablesAndCommit \/ ScraperReturns \/ ScraperRaises \/ ConcatRaises

SpecPipe == InitPipe /\ [][NextPipe]_vars

(***************************************************************************)
(* The age-group functions applied to bounded inputs (SpecAge).            *)
(***************************************************************************)
MaxLabelLen == 3
MaxAge == 152

LabelAlphabet == {"1", "8", "+", "-", EnDash, " ", "x"}

T_80_and_over == <<"8", "0", " ", "a", "n", "d", " ", "o", "v", "e", "r">>
T_80_And_Over == <<"8", "0", " ", "A", "n", "d", " ", "O", "v", "e", "r">>
T_80plus == <<"8", "0", "+">>
T_40_44 == <<"4", "0", "-", "4", "4">>
T_18_39_dash == <<"1", "8", " ", EnDash, " ", "3", "9">>
T_1_2_3 == <<"1", "-", "2", "-", "3">>
T_18_34_plus == <<"1", "8", "-", "3", "4", "+">>
T_and_over == <<"a", "n", "d", " ", "o", "v", "e", "r">>

Labels ==
    SeqsUpTo(LabelAlphabet, MaxLabelLen)
        \cup {T_80_and_over, T_80_And_Over, T_80plus, T_40_44, T_18_39_dash,
              T_1_2_3, T_18_34_plus, T_and_over}

GroupAges == {0 - 1, 0, 1, 2, 8, 9, 11, 17, 18, 19, 39, 40, 42, 44, 45, 79, 80, 81, 85, 88}

ClassifierAges == (0 - 6)..MaxAge

\* the locations asked for, each with the bracket scheme its race uses
LocationInputs ==
    { [text |-> None, scheme |-> "none"],
      [text |-> Some(<<>>), scheme |-> "none"],
      [text |-> Some(<<"U", "n", "k", "n", "o", "w", "n", "C", "i", "t", "y">>), scheme |-> "none"],
      [text |-> Some(<<"N", "e", "w", "Y", "o", "r", "k">>), scheme |-> "none"],
      [text |-> Some(<<"B", "o", "s", "t", "o", "n">>), scheme |-> "coarse34"],
      [text |-> Some(<<" ", "b", "o", "s", "t", "o", "n", " ">>), scheme |-> "coarse34"],
      [text |-> Some(<<"C", "H", "I", "C", "A", "G", "O">>), scheme |-> "coarse34"],
      [text |-> Some(<<"N", "e", "w", " ", "Y", "o", "r", "k">>), scheme |-> "coarse34"],
      [text |-> Some(<<"L", "o", "n", "d", "o", "n">>), scheme |-> "coarse39"],
      [text |-> Some(<<"T", "o", "k", "y", "o">>), scheme |-> "fine"],
      [text |-> Some(<<"B", "e", "r", "l", "i", "n", " ">>), scheme |-> "fine"] }

InitAge == call = NoCall /\ Idle

AgeInGroupCall ==
    /\ call = NoCall
    /\ \E age \in GroupAges, group \in Labels :
          call' = [op |-> "age_in_group", age |-> age, group |-> group,
                   result |-> age_in_group(age, group)]
    /\ UNCHANGED <<qualTimes, raceData, committedQT, committedRD, pc, datasets>>

GetAgeGroupCall ==
    /\ call = NoCall
    /\ \E age \in ClassifierAges, l \in LocationInputs :
          call' = [op |-> "get_age_group", age |-> age, location |-> l.text,
                   scheme |-> l.scheme, result |-> get_age_group(age, l.text)]
    /\ UNCHANGED <<qualTimes, raceData, committedQT, committedRD, pc, datasets>>

NextAge == AgeInGroupCall \/ GetAgeGroupCall \/ Return

SpecAge == InitAge /\ [][NextAge]_vars

(***************************************************************************)
(* time_to_seconds applied to bounded inputs (SpecTime): the texts the     *)
(* scrapers write, built from numbers, and every short text over a small   *)
(* alphabet.                                                               *)
(***************************************************************************)
MaxTimeLen == 3

\* a number in two digits, as the scrapers format it ({:02d})
Pad2(n) == IF n < 10 THEN <<"0">> \o NatStr(n) ELSE NatStr(n)

TimeAlphabet == {"3", ":", "h", "r", "s", " "}

\* "sub H:MM", "sub HH:MM" (wide) and, with seconds, "sub H:MM:SS"
SubText(h, m, s, wide) ==
    T_sub_ \o (IF wide THEN Pad2(h) ELSE NatStr(h)) \o <<":">> \o Pad2(m)
        \o (IF IsNone(s) THEN <<>> ELSE <<":">> \o Pad2(Val(s)))

SubHours == {0, 3, 12}
SubMinutes == {0, 5, 38}
SubSeconds == {None, Some(0), Some(30)}

SubTexts ==
    {SubText(h, m, s, wide) : h \in SubHours, m \in SubMinutes, s \in SubSeconds,
                              wide \in BOOLEAN}

\* one component of "XhrsYminZsec": nothing when the component is left out
UnitPart(n, unit, pad) ==
    IF IsNone(n) THEN <<>> ELSE (IF pad THEN Pad2(Val(n)) ELSE NatStr(Val(n))) \o unit

\* the parts that are present, in the order given, with sep between them
RECURSIVE JoinParts(_, _)
JoinParts(parts, sep) ==
    IF parts = <<>> THEN <<>>
    ELSE IF Head(parts) = <<>> THEN JoinParts(Tail(parts), sep)
         ELSE LET rest == JoinParts(Tail(parts), sep)
              IN IF rest = <<>> THEN Head(parts) ELSE Head(parts) \o sep \o rest

UnitStyles == [hr : {T_hr, T_hr \o <<"s">>}, sep : {<<>>, <<" ">>}, pad : BOOLEAN]

\* "XhrsYminZsec" for the components that are not None
UnitText(h, m, s, style) ==
    JoinParts(<<UnitPart(h, style.hr, style.pad), UnitPart(m, T_min, style.pad),
                UnitPart(s, T_sec, style.pad)>>, style.sep)

UnitHours == {None, Some(0), Some(3), Some(12)}
UnitMinutes == {None, Some(5), Some(25), Some(90)}
UnitSeconds == {None, Some(0), Some(45)}

UnitTexts ==
    {UnitText(h, m, s, style) : h \in UnitHours, m \in UnitMinutes, s \in UnitSeconds,
                                style \in UnitStyles}

TimeTexts ==
    SubTexts \cup UnitTexts \cup SeqsUpTo(TimeAlphabet, MaxTimeLen)
        \cup {T_3_10_00, <<"0", "2", ":", "3", "2", ":", "0", "0">>,
              <<"f", "a", "s", "t">>, <<" ", "S", "U", "B", " ", "3", ":", "3", "8", " ">>,
              <<"2", "5", "m", "i", "n", " ", "3", "h", "r", "s">>}

TimeInputs == {None} \cup {Some(t) : t \in TimeTexts}

InitTime == call = NoCall /\ Idle

TimeToSecondsCall ==
    /\ call = NoCall
    /\ \E time_str \in TimeInputs :
          call' = [op |-> "time_to_seconds", time_str |-> time_str,
                   result |-> time_to_seconds(time_str)]
    /\ UNCHANGED <<qualTimes, raceData, committedQT, committedRD, pc, datasets>>

NextTime == TimeToSecondsCall \/ Return

SpecTime == InitTime /\ [][NextTime]_vars

(***************************************************************************)
(* scrape.py: _get, one turn of its loop at a time (SpecGet).  `call` is   *)
(* the frame of the call: its arguments, the loop variable, last_exception *)
(* and what the call has done so far (GET requests sent, sleeps taken,     *)
(* failures met); pc is the statement it stands at.                        *)
(***************************************************************************)
MaxRetries == 3

Backoffs == {"1.5", "2"}

\* what session.get and response.raise_for_status raise: subclasses of
\* requests.RequestException
RequestExceptions == {"ConnectionError", "Timeout", "HTTPError"}

\* backoff ** attempt
Pow(backoff, attempt) == [base |-> backoff, exp |-> attempt]

InitGet == call = NoCall /\ Idle

\* lines 24-28: the call is made; last_exception = None; the loop is entered
GetCall ==
    /\ pc = "idle" /\ call = NoCall
    /\ \E retries \in 0..MaxRetries, backoff \in Backoffs :
          call' = [op |-> "_get", retries |-> retries, backoff |-> backoff,
                   attempt |-> 1, last_exception |-> None, gets |-> 0,
                   sleeps |-> <<>>, failures |-> <<>>, outcome |-> "running",
                   exc |-> "none"]
    /\ pc' = "for"
    /\ UNCHANGED <<qualTimes, raceData, committedQT, committedRD, datasets>>

\* lines 30-34: the attempt succeeds and the response is returned
GetSucceeds ==
    /\ pc = "for" /\ call.attempt <= call.retries
    /\ call' = [call EXCEPT !.gets = @ + 1, !.outcome = "returned"]
    /\ pc' = "done"
    /\ UNCHANGED <<qualTimes, raceData, committedQT, committedRD, datasets>>

\* lines 30-40: the attempt fails with a request exception, which is kept;
\* the call sleeps when the attempt is not the last, and the loop goes on
GetFails ==
    /\ pc = "for" /\ call.attempt <= call.retries
    /\ \E exception \in RequestExceptions :
          call' = [call EXCEPT
                      !.gets = @ + 1,
                      !.last_exception = Some(exception),
                      !.failures = Append(@, exception),
                      !.sleeps = IF call.attempt < call.retries
                                 THEN Append(@, Pow(call.backoff, call.attempt))
                                 ELSE @,
                      !.attempt = @ + 1]
    /\ UNCHANGED <<pc, qualTimes, raceData, committedQT, committedRD, datasets>>

\* lines 42-43: the loop is over; raise last_exception.  Raising None is a
\* TypeError (exceptions must derive from BaseException)
GetRaises ==
    /\ pc = "for" /\ call.attempt > call.retries
    /\ call' = [call EXCEPT
                   !.outcome = "raised",
                   !.exc = IF IsNone(call.last_exception) THEN "TypeError"
                           ELSE Val(call.last_exception)]
    /\ pc' = "done"
    /\ UNCHANGED <<qualTimes, raceData, committedQT, committedRD, datasets>>

\* the caller goes on after the call
GetDone ==
    /\ pc = "done"
    /\ call' = NoCall
    /\ pc' = "idle"
    /\ UNCHANGED <<qualTimes, raceData, committedQT, committedRD, datasets>>

NextGet == GetCall \/ GetSucceeds \/ GetFails \/ GetRaises \/ GetDone

SpecGet == InitGet /\ [][NextGet]_vars

(***************************************************************************)
(* The shapes of an age-group label, as the specification lists them: the  *)
(* label is read with spaces dropped, letters lowered and an en dash       *)
(* taken for a hyphen.                                                     *)
(***************************************************************************)
AllDigits(s) == s # <<>> /\ \A i \in 1..Len(s) : s[i] \in Digits

Squeezed(label) ==
    LET keep == SelectSeq(label, LAMBDA c : c # " ")
    IN [i \in 1..Len(keep) |-> IF keep[i] = EnDash THEN "-" ELSE LowerChar(keep[i])]

Shape(label) ==
    LET l == Squeezed(label)
        n == Len(l)
        cuts == {i \in 2..(n - 1) : /\ l[i] = "-"
                                    /\ AllDigits(SubSeq(l, 1, i - 1))
                                    /\ AllDigits(SubSeq(l, i + 1, n))}
    IN IF n >= 2 /\ l[n] = "+" /\ AllDigits(SubSeq(l, 1, n - 1))
       THEN [kind |-> "open", lo |-> DecVal(SubSeq(l, 1, n - 1)), hi |-> 0]
       ELSE IF n >= 8 /\ SubSeq(l, n - 6, n) = <<"a", "n", "d", "o", "v", "e", "r">>
                      /\ AllDigits(SubSeq(l, 1, n - 7))
            THEN [kind |-> "open", lo |-> DecVal(SubSeq(l, 1, n - 7)), hi |-> 0]
            ELSE IF cuts # {}
                 THEN LET i == CHOOSE i \in cuts : TRUE
                      IN [kind |-> "range", lo |-> DecVal(SubSeq(l, 1, i - 1)),
                          hi |-> DecVal(SubSeq(l, i + 1, n))]
                 ELSE IF AllDigits(l)
                      THEN [kind |-> "single", lo |-> DecVal(l), hi |-> DecVal(l)]
                      ELSE [kind |-> "other", lo |-> 0, hi |-> 0]

\* C8: for a label of a recognised shape, age_in_group is true exactly when
\* age >= N (open-ended "N+" / "N and over"), A <= age <= B (closed range
\* "A-B", hyphen or en dash, with or without spaces), age = N (single "N").
C8_AgeInGroupShapes ==
    call.op = "age_in_group" =>
        LET s == Shape(call.group)
        IN /\ s.kind = "open" => call.result = Returned(call.age >= s.lo)
           /\ s.kind = "range" =>
                 call.result = Returned(s.lo <= call.age /\ call.age <= s.hi)
           /\ s.kind = "single" => call.result = Returned(call.age = s.lo)

C8_Witness ==
    /\ call.op = "age_in_group"
    /\ call.group = T_18_39_dash
    /\ call.age = 39
    /\ call.result = Returned(TRUE)

\* C9: for a label of no recognised shape, age_in_group returns false for
\* every age and never raises.
C9_UnrecognisedIsFalse ==
    (call.op = "age_in_group" /\ Shape(call.group).kind = "other") =>
        call.result = Returned(FALSE)

\* The bracket of a scheme that holds the age, as the specification gives the
\* schemes; <<>> when the scheme has no bracket for the age.
Closed(lo, hi) == Some([lo |-> lo, hi |-> hi, open |-> FALSE])
OpenFrom(lo) == Some([lo |-> lo, hi |-> lo, open |-> TRUE])
FiveYearBand(age) == Closed(5 * (age \div 5), 5 * (age \div 5) + 4)

SchemeBracket(scheme, age) ==
    CASE scheme = "coarse34" ->
            IF age < 18 \/ age > 150 THEN None
            ELSE IF age <= 34 THEN Closed(18, 34)
            ELSE IF age >= 80 THEN OpenFrom(80)
            ELSE FiveYearBand(age)
      [] scheme = "coarse39" ->
            IF age < 18 \/ age > 150 THEN None
            ELSE IF age <= 39 THEN Closed(18, 39)
            ELSE IF age >= 90 THEN OpenFrom(90)
            ELSE FiveYearBand(age)
      [] scheme = "fine" -> IF age >= 80 THEN OpenFrom(80) ELSE FiveYearBand(age)
      [] OTHER -> None

BracketText(b) ==
    IF b.open THEN IntStr(b.lo) \o <<"+">>
    ELSE IntStr(b.lo) \o <<"-">> \o IntStr(b.hi)

\* C10: get_age_group returns the label of the bracket of the location's
\* scheme that contains the age, and "Unknown" exactly when the age is in no
\* bracket of the scheme or the location is not recognised; the label
\* returned is one age_in_group accepts the age for.
C10_GetAgeGroupLabel ==
    call.op = "get_age_group" =>
        LET b == SchemeBracket(call.scheme, call.age)
        IN /\ (call.result = T_Unknown) <=> IsNone(b)
           /\ ~IsNone(b) => call.result = BracketText(Val(b))
           /\ (~IsNone(b) /\ call.age >= 0) =>
                 /\ age_in_group(call.age, call.result) = Returned(TRUE)
                 /\ Shape(call.result).kind = (IF Val(b).open THEN "open" ELSE "range")
                 /\ Shape(call.result).lo = Val(b).lo

C10_Witness ==
    /\ call.op = "get_age_group"
    /\ call.age = 82
    /\ call.location = Some(<<"C", "H", "I", "C", "A", "G", "O">>)
    /\ call.result = T_80plus

(***************************************************************************)
(* The upserts: what is claimed of them.                                   *)
(***************************************************************************)
QTKey(r) == <<r.AgeGroup, r.Location>>
RDKey(r) == <<r.RaceYear, r.Location>>

KeyColumns(op) ==
    IF op = "insert_racedata" THEN {"RaceYear", "Location"} ELSE {"AgeGroup", "Location"}

\* a record that carries its natural key: both key columns present, not null
HasKey(row, op) ==
    /\ KeyColumns(op) \subseteq DOMAIN row
    /\ \A c \in KeyColumns(op) : ~IsNone(row[c])

\* the last row of the frame written under the key of row i
LastWrite(df, i, Key(_)) ==
    df[CHOOSE j \in i..Len(df) :
          /\ Key(df[j]) = Key(df[i])
          /\ \A k \in (j + 1)..Len(df) : Key(df[k]) # Key(df[i])]

\* the rows stored under keys the frame does not write are as they were
OthersUntouched(before, after, df, Key(_)) ==
    \A r \in BagToSet(before) \cup BagToSet(after) :
        (\A i \in 1..Len(df) : Key(df[i]) # Key(r)) =>
            CopiesIn(r, after) = CopiesIn(r, before)

\* C1: QualifyingTimes holds at most one row per (AgeGroup, Location); a
\* frame of records that carry their key and their time texts is written
\* without error, a key already stored keeping its one row (updated in place)
\* and a new key gaining exactly one row, rows of other keys untouched.
C1_OneRowPerKey ==
    /\ \A r \in BagToSet(qualTimes) :
          CountWhere(qualTimes, LAMBDA x : QTKey(x) = QTKey(r)) = 1
    /\ call.op = "insert_qualifying_times" =>
          LET df == call.df
              written == {QTKey(df[i]) : i \in 1..Len(df)}
              had == {QTKey(r) : r \in BagToSet(call.before)}
          IN /\ (\A i \in 1..Len(df) :
                    /\ HasKey(df[i], call.op)
                    /\ {"Women", "Men"} \subseteq DOMAIN df[i]
                    /\ ~IsNone(df[i].Women) /\ ~IsNone(df[i].Men)) => call.exc = "none"
             /\ call.exc = "none" =>
                   /\ {QTKey(r) : r \in BagToSet(qualTimes)} = had \cup written
                   /\ BagCardinality(qualTimes) =
                         BagCardinality(call.before) + Cardinality(written \ had)
                   /\ OthersUntouched(call.before, qualTimes, df, QTKey)

\* a key stored before the call is written again, and a new key is written
\* twice in the same frame
C1_Witness ==
    /\ call.op = "insert_qualifying_times"
    /\ call.exc = "none"
    /\ Len(call.df) = 2
    /\ QTKey(call.df[1]) = QTKey(call.df[2])
    /\ call.df[1] # call.df[2]
    /\ BagCardinality(call.before) = 2
    /\ BagCardinality(qualTimes) = 3

\* C2: after a second write under a key (in a later call or later in the same
\* frame, with the same or with other time values) exactly one row is stored
\* for the key, and its Women, Men, WomenSeconds and MenSeconds are those of
\* the second write.
C2_SecondWriteWins ==
    (call.op = "insert_qualifying_times" /\ call.exc = "none") =>
        \A i \in 1..Len(call.df) :
            HasKey(call.df[i], call.op) =>
                LET w == LastWrite(call.df, i, QTKey)
                    stored == {r \in BagToSet(qualTimes) : QTKey(r) = QTKey(w)}
                IN /\ CountWhere(qualTimes, LAMBDA x : QTKey(x) = QTKey(w)) = 1
                   /\ \A r \in stored :
                         /\ r.Women = w.Women /\ r.Men = w.Men
                         /\ r.WomenSeconds = time_to_seconds(w.Women).val
                         /\ r.MenSeconds = time_to_seconds(w.Men).val

\* 45-49 / Boston stored with women 3:35:00 is written again with 3:30:00
C2_Witness ==
    /\ call.op = "insert_qualifying_times"
    /\ call.exc = "none"
    /\ call.df = <<QTRow(<<Some(T_45_49), Some(T_Boston)>>, <<Some(T_3_30_00), Some(T_sub_3_38)>>)>>
    /\ \E r \in BagToSet(call.before) :
          /\ QTKey(r) = <<Some(T_45_49), Some(T_Boston)>>
          /\ r.Women = Some(T_3_35_00) /\ r.MenSeconds = Some(12300)
    /\ \E r \in BagToSet(qualTimes) :
          /\ QTKey(r) = <<Some(T_45_49), Some(T_Boston)>>
          /\ r.Women = Some(T_3_30_00) /\ r.MenSeconds = Some(13080)

\* C3: RaceData holds at most one record per (RaceYear, Location); after a
\* write the record of a key carries the QualifyingText, LinkText, LinkURL,
\* ScrapeDate and PageHash of the most recent write for the key, and the
\* records of other keys are as they were.
C3_RaceDataLatestWrite ==
    /\ \A r \in BagToSet(raceData) :
          CountWhere(raceData, LAMBDA x : RDKey(x) = RDKey(r)) = 1
    /\ (call.op = "insert_racedata" /\ call.exc = "none") =>
          /\ \A i \in 1..Len(call.df) :
                HasKey(call.df[i], call.op) =>
                    LET w == LastWrite(call.df, i, RDKey)
                        stored == {r \in BagToSet(raceData) : RDKey(r) = RDKey(w)}
                    IN /\ stored # {}
                       /\ \A r \in stored :
                             /\ r.QualifyingText = w.QualifyingText
                             /\ r.LinkText = w.LinkText
                             /\ r.LinkURL = w.LinkURL
                             /\ r.ScrapeDate = w.ScrapeDate
                             /\ r.PageHash =
                                   (IF "PageHash" \in DOMAIN w THEN w.PageHash ELSE None)
          /\ OthersUntouched(call.before, raceData, call.df, RDKey)

\* 2027 / Boston stored from scrape A is written again from scrape B while
\* 2027 / London stays
C3_Witness ==
    /\ call.op = "insert_racedata"
    /\ call.exc = "none"
    /\ call.df = <<RDRow(<<Some(2027), Some(T_Boston)>>, RDScrape(2))>>
    /\ RDRow(<<Some(2027), Some(T_Boston)>>, RDScrape(1)) \in BagToSet(call.before)
    /\ RDRow(<<Some(2027), Some(T_London)>>, RDScrape(1)) \in BagToSet(call.before)
    /\ BagToSet(raceData) = { RDRow(<<Some(2027), Some(T_Boston)>>, RDScrape(2)),
                              RDRow(<<Some(2027), Some(T_London)>>, RDScrape(1)) }

\* C4: an upsert given a record without its natural key (a key column missing
\* or null) fails at that record before any statement is issued for it.
C4_KeylessFailsFast ==
    call.op \in {"insert_qualifying_times", "insert_racedata"} =>
        \A i \in 1..Len(call.df) :
            ~HasKey(call.df[i], call.op) =>
                /\ call.exc # "none"
                /\ \A k \in 1..Len(call.issued) : call.issued[k].row # i

\* C5: the standard lookup finds a standard whenever some stored row of the
\* location has a bracket that contains the age and a seconds value for the
\* gender, takes it from such a row, and reports "not found" only when no
\* row of the location matches.
MatchingRows(B, location, age, gender) ==
    {r \in BagToSet(B) :
        /\ ~IsNone(location) /\ r.Location = location
        /\ ~IsNone(r.AgeGroup)
        /\ ~IsNone(seconds_of(r, gender))
        /\ age_in_group(age, Val(r.AgeGroup)) = Returned(TRUE)}

C5_LookupSeesAllRows ==
    (call.op = "print_pb_margin" /\ call.result.kind # "pb_unparsable") =>
        LET rows == MatchingRows(qualTimes, call.location, call.age, call.gender)
        IN IF rows = {} THEN call.result.kind = "not_found"
           ELSE /\ call.result.kind = "margin"
                /\ \E r \in rows :
                      /\ call.result.age_group = Val(r.AgeGroup)
                      /\ call.result.seconds = Val(seconds_of(r, call.gender))

(***************************************************************************)
(* run_pipeline: what is claimed of it.                                    *)
(***************************************************************************)
\* the committed tables hold what the run scraped for a source
InRaceData(d) ==
    \A i \in 1..Len(d.racedata) : rd_new_row(d.racedata[i]) \in BagToSet(committedRD)

InQualifyingTimes(d) ==
    \A i \in 1..Len(d.times) :
        \E r \in BagToSet(committedQT) :
            /\ QTKey(r) = QTKey(d.times[i])
            /\ r.Women = d.times[i].Women /\ r.Men = d.times[i].Men

\* C6: when the scrape of one source fails, the run goes on and the rows of
\* the sources whose scrape succeeded are reconciled into storage.
C6_OtherSourcesReconciled ==
    (pc = "aborted" /\ \E k \in 1..Len(Sources) : call.at = Sources[k]) =>
        \A i \in 1..Len(datasets) : InRaceData(datasets[i]) /\ InQualifyingTimes(datasets[i])

CanonicalTexts(h, m, s) ==
    { NatStr(h) \o <<":">> \o Pad2(m) \o <<":">> \o Pad2(s),
      Pad2(h) \o <<":">> \o Pad2(m) \o <<":">> \o Pad2(s) }

CanonHours == 0..12
CanonMinutes == {0, 10, 30, 35, 59}

SecondsColumn(col) == IF col = "Women" THEN "WomenSeconds" ELSE "MenSeconds"

\* C11: a Women or Men text already in canonical H:MM:SS form is stored as
\* it is, and the seconds stored beside it are h*3600 + m*60 + s.
C11_CanonicalRoundTrip ==
    (call.op = "insert_qualifying_times" /\ call.exc = "none") =>
        \A i \in 1..Len(call.df) :
            HasKey(call.df[i], call.op) =>
                LET w == LastWrite(call.df, i, QTKey)
                IN \A r \in {x \in BagToSet(qualTimes) : QTKey(x) = QTKey(w)} :
                      \A col \in {"Women", "Men"} :
                         \A h \in CanonHours, m \in CanonMinutes, s \in CanonMinutes :
                            w[col] \in {Some(t) : t \in CanonicalTexts(h, m, s)} =>
                               /\ r[col] = w[col]
                               /\ r[SecondsColumn(col)] = Some(h * 3600 + m * 60 + s)

\* C12: for "sub H:MM", "sub HH:MM" and "sub H:MM:SS" time_to_seconds returns
\* h*3600 + m*60 + s, s being 0 when the text has no seconds group.
C12_SubFormSeconds ==
    call.op = "time_to_seconds" =>
        \A h \in SubHours, m \in SubMinutes, s \in SubSeconds, wide \in BOOLEAN :
            call.time_str = Some(SubText(h, m, s, wide)) =>
                call.result = [exc |-> "none",
                               val |-> Some(h * 3600 + m * 60 + OrZero(s))]

\* C13: for "XhrsYminZsec" with any of the three components left out,
\* time_to_seconds returns hours*3600 + minutes*60 + seconds over the
\* components present, a missing one counting 0.
C13_UnitFormSeconds ==
    call.op = "time_to_seconds" =>
        \A h \in UnitHours, m \in UnitMinutes, s \in UnitSeconds, style \in UnitStyles :
            call.time_str = Some(UnitText(h, m, s, style)) =>
                call.result = [exc |-> "none",
                               val |-> Some(OrZero(h) * 3600 + OrZero(m) * 60 + OrZero(s))]

\* seconds alone, "45sec", give 45
C13_Witness ==
    /\ call.op = "time_to_seconds"
    /\ call.time_str = Some(<<"4", "5", "s", "e", "c">>)
    /\ call.result = [exc |-> "none", val |-> Some(45)]

\* a text holds a numeric token
HasDigit(t) == \E i \in 1..Len(t) : t[i] \in Digits

\* C14: time_to_seconds never raises, and returns null for a missing input,
\* an empty text and any text that holds no numeric token.
C14_AbsenceIsNull ==
    call.op = "time_to_seconds" =>
        /\ call.result.exc = "none"
        /\ (IsNone(call.time_str) \/ ~HasDigit(Val(call.time_str))) =>
              call.result.val = None

(***************************************************************************)
(* The margin of a personal best: what is claimed of it.                   *)
(***************************************************************************)
\* personal-best texts of the grammars of the time normalizer, each with the
\* seconds it stands for: H:MM:SS, "sub H:MM", hrs/min/sec suffixes, and a
\* bare integer read as hours
PbGrammar ==
    {[text |-> t, seconds |-> 3 * 3600 + 10 * 60] : t \in CanonicalTexts(3, 10, 0)}
        \cup {[text |-> SubText(3, 38, None, wide), seconds |-> 3 * 3600 + 38 * 60] :
                 wide \in BOOLEAN}
        \cup {[text |-> UnitText(Some(3), Some(25), s, style),
               seconds |-> 3 * 3600 + 25 * 60] : s \in {None, Some(0)}, style \in UnitStyles}
        \cup {[text |-> NatStr(3), seconds |-> 3 * 3600]}

\* C15: for a personal best in one of the grammars and a matched standard S
\* the margin is the personal best in seconds minus S; a personal best that
\* cannot be parsed is reported, no margin is produced and nothing is raised.
C15_MarginIsPbMinusStandard ==
    call.op = "print_pb_margin" =>
        /\ call.result.kind \in {"pb_unparsable", "not_found", "margin"}
        /\ \A g \in PbGrammar :
              call.pb = Some(g.text) =>
                 /\ call.result.kind # "pb_unparsable"
                 /\ call.result.kind = "margin" =>
                       call.result.delta = g.seconds - call.result.seconds
        /\ (IsNone(call.pb) \/ ~HasDigit(Val(call.pb))) =>
              call.result.kind = "pb_unparsable"

\* C16: a run in which every scrape succeeded goes on past the scrape stage
\* without an exception, and by then the metadata row and the qualifying-time
\* rows of each of the six sources are committed to RaceData and
\* QualifyingTimes (the query stage finds them there).
C16_CommittedBeforeQuery ==
    (Len(datasets) = Len(Sources) /\ pc # "scrape") =>
        /\ call.exc = "none"
        /\ pc # "aborted"
        /\ \A k \in 1..Len(Sources) :
              /\ datasets[k].source = Sources[k]
              /\ InRaceData(datasets[k])
              /\ InQualifyingTimes(datasets[k])

(***************************************************************************)
(* _get: what is claimed of it.                                            *)
(***************************************************************************)
\* C17: for every retries >= 0, _get sends at most `retries` GET requests;
\* it returns at the first attempt that succeeds; it sleeps backoff**attempt
\* after each failed attempt but the last; and after `retries` failures it
\* raises the exception of the last failed attempt, a request exception and
\* no other type of error.
C17_GetRetryContract ==
    call.op = "_get" =>
        /\ call.gets <= call.retries
        /\ Len(call.failures) <= call.retries
        /\ \A k \in 1..Len(call.sleeps) : call.sleeps[k] = Pow(call.backoff, k)
        /\ Len(call.sleeps) =
              (IF Len(call.failures) = call.retries /\ call.retries > 0
               THEN call.retries - 1 ELSE Len(call.failures))
        /\ call.outcome = "returned" => call.gets = Len(call.failures) + 1
        /\ call.outcome = "raised" =>
              /\ call.gets = call.retries
              /\ Len(call.failures) = call.retries
              /\ call.exc \in RequestExceptions
              /\ call.failures # <<>> /\ call.exc = call.failures[Len(call.failures)]

====
